---- MODULE Spec2Model ----
(***************************************************************************)
(* crabboy: the paced clock (src/clock.rs), the flat memory store          *)
(* (src/memory.rs) and the DMG CPU engine (src/dmgcpu.rs) as one state     *)
(* machine.  Two threads interleave: the pacing thread spawned by          *)
(* Clock::start and the thread that calls DMGCPU::run.                     *)
(***************************************************************************)
EXTENDS Integers, Sequences, FiniteSets, TLC

(***************************************************************************)
(* Bounds of the exploration.                                              *)
(***************************************************************************)
\* nanoseconds of real time explored after the pacing thread captured its
\* first Instant
MaxTime == 10
\* increments of the shared counter explored
MaxTicks == 10
\* calls of run() explored on one engine
MaxRuns == 2

(***************************************************************************)
(* Program constants.                                                      *)
(***************************************************************************)
\* memory: [u8; 0xFFFF]
MemLen == 65535
\* 1_000_000_000u64, nanoseconds per second
NanosPerSecond == 1000000000
\* pc: 0x0100 in DMGCPU::new
EntryPc == 256
\* memory.write(0xFF00, &[0x76]) in DMGCPU::new
SafetyNetAddr == 65280
\* the HALT opcode 0x76
OpHalt == 118
\* u16 range: 0x10000
U16Mod == 65536
\* u8 range: 0x100
U8Mod == 256
\* bit positions of the four flags in the flag byte
ZERO_FLAG_BYTE_POSITION == 7
SUBTRACT_FLAG_BYTE_POSITION == 6
HALF_CARRY_FLAG_BYTE_POSITION == 5
CARRY_FLAG_BYTE_POSITION == 4

RECURSIVE Pow2(_)
\* 1 << n
Pow2(n) == IF n = 0 THEN 1 ELSE 2 * Pow2(n - 1)

\* (byte >> pos) & 0b1
Bit(byte, pos) == (byte \div Pow2(pos)) % 2

(***************************************************************************)
(* FlagRegister and Registers.                                             *)
(***************************************************************************)
\* a decoding that reads half_carry from the carry bit
FlagFromByteOneBit(byte) ==
    [zero       |-> Bit(byte, ZERO_FLAG_BYTE_POSITION) # 0,
     subtract   |-> Bit(byte, SUBTRACT_FLAG_BYTE_POSITION) # 0,
     half_carry |-> Bit(byte, CARRY_FLAG_BYTE_POSITION) # 0,
     carry      |-> Bit(byte, CARRY_FLAG_BYTE_POSITION) # 0]

\* impl From<u8> for FlagRegister
FlagFromByte(byte) ==
    [zero       |-> Bit(byte, ZERO_FLAG_BYTE_POSITION) # 0,
     subtract   |-> Bit(byte, SUBTRACT_FLAG_BYTE_POSITION) # 0,
     half_carry |-> Bit(byte, HALF_CARRY_FLAG_BYTE_POSITION) # 0,
     carry      |-> Bit(byte, CARRY_FLAG_BYTE_POSITION) # 0]

\* impl From<FlagRegister> for u8: the four shifted bits are disjoint, so the
\* bitwise OR is their sum
ByteFromFlag(flag) ==
      (IF flag.zero       THEN 1 ELSE 0) * Pow2(ZERO_FLAG_BYTE_POSITION)
    + (IF flag.subtract   THEN 1 ELSE 0) * Pow2(SUBTRACT_FLAG_BYTE_POSITION)
    + (IF flag.half_carry THEN 1 ELSE 0) * Pow2(HALF_CARRY_FLAG_BYTE_POSITION)
    + (IF flag.carry      THEN 1 ELSE 0) * Pow2(CARRY_FLAG_BYTE_POSITION)

\* Registers::new
NewRegisters ==
    [a |-> 0, b |-> 0, c |-> 0, d |-> 0, e |-> 0,
     f |-> FlagFromByte(0), h |-> 0, l |-> 0]

\* (hi as u16) << 8 | lo as u16: the shifted high byte has a zero low byte
af(r) == r.a * U8Mod + ByteFromFlag(r.f)
bc(r) == r.b * U8Mod + r.c
de(r) == r.d * U8Mod + r.e
hl(r) == r.h * U8Mod + r.l

\* a pair write with the two bytes exchanged
write_de_swapped(r, value) ==
    [r EXCEPT !.d = value % U8Mod, !.e = value \div U8Mod]

\* (value >> 8) as u8 and (value & 0xFF) as u8
write_bc(r, value) == [r EXCEPT !.b = value \div U8Mod, !.c = value % U8Mod]
write_de(r, value) == [r EXCEPT !.d = value \div U8Mod, !.e = value % U8Mod]
write_hl(r, value) == [r EXCEPT !.h = value \div U8Mod, !.l = value % U8Mod]
\* (value & 0xF0) as u8 keeps bits 7..4 of the low byte
write_af(r, value) ==
    [r EXCEPT !.a = value \div U8Mod,
              !.f = FlagFromByte(((value % U8Mod) \div 16) * 16)]

(***************************************************************************)
(* Memory: the 65,535-byte array, kept as the function of its non-zero     *)
(* bytes (every other byte is 0, as Memory::new leaves it).                *)
(***************************************************************************)
\* Memory::new: [0; 0xFFFF]
NewMemoryArray == [a \in {} |-> 0]

\* self.memory[i] for an index inside the array
Cell(mem, i) == IF i \in DOMAIN mem THEN mem[i] ELSE 0

\* Memory::read_byte: indexing panics outside 0..MemLen-1
read_byte(mem, address) ==
    IF address < MemLen
    THEN [ok |-> TRUE, val |-> Cell(mem, address)]
    ELSE [ok |-> FALSE, val |-> 0]

\* a word read whose second index wraps to the start of the array
read_word_wrapping(mem, address) ==
    IF address < MemLen
    THEN [ok |-> TRUE,
          val |-> Cell(mem, address) + U8Mod * Cell(mem, (address + 1) % MemLen)]
    ELSE [ok |-> FALSE, val |-> 0]

\* Memory::read_word: the two index expressions are evaluated in order, each
\* panics outside the array; address + 1 is a u16 sum that is only evaluated
\* once memory[address] was in bounds, so it cannot overflow
read_word(mem, address) ==
    IF address < MemLen /\ address + 1 < MemLen
    THEN [ok |-> TRUE, val |-> Cell(mem, address) + U8Mod * Cell(mem, address + 1)]
    ELSE [ok |-> FALSE, val |-> 0]

\* copy_from_slice into memory[address..address+len]
CopyFromSlice(mem, address, data) ==
    LET touched == {address + i - 1 : i \in 1..Len(data)}
        at(x)   == IF x \in touched THEN data[x - address + 1] ELSE mem[x]
        dom     == {x \in (DOMAIN mem) \cup touched : at(x) # 0}
    IN  [x \in dom |-> at(x)]

\* a write that stores the bytes that fit and drops the rest
write_truncating(mem, address, data) ==
    LET fit == IF address >= MemLen THEN 0
               ELSE IF address + Len(data) <= MemLen THEN Len(data)
               ELSE MemLen - address
    IN  [ok |-> TRUE, mem |-> CopyFromSlice(mem, address, SubSeq(data, 1, fit))]

\* Memory::write: assert!(address + data.len() <= self.memory.len())
write(mem, address, data) ==
    IF address + Len(data) <= MemLen
    THEN [ok |-> TRUE, mem |-> CopyFromSlice(mem, address, data)]
    ELSE [ok |-> FALSE, mem |-> mem]

(***************************************************************************)
(* DMGCPU::execute.  The engine is the record                              *)
(*   [registers, pc, sp, memory, halt, stop];                              *)
(* a step yields [fault, cost, st]: fault is "none" and st the engine      *)
(* after the instruction, or fault names the panic and st is the engine as *)
(* the panic left it.  ovf is what a u16 addition that overflows does in   *)
(* the build at hand: "panic" (overflow checks on) or "wrap" (off).        *)
(***************************************************************************)
OverflowOutcomes == {"panic", "wrap"}

Retire(s, cost) == [fault |-> "none", cost |-> cost, st |-> s]
Panic(s, kind)  == [fault |-> kind, cost |-> 0, st |-> s]

\* self.pc += n, then the arm's value (its cycle cost)
AdvancePc(s, n, cost, ovf) ==
    IF s.pc + n < U16Mod
    THEN Retire([s EXCEPT !.pc = s.pc + n], cost)
    ELSE IF ovf = "panic"
         THEN Panic(s, "add_overflow")
         ELSE Retire([s EXCEPT !.pc = (s.pc + n) % U16Mod], cost)

\* an LD r16, d16 that takes the first immediate byte as the high byte
LdR16D16BigEndian(s, pair, ovf) ==
    LET v == read_word(s.memory, s.pc + 1)
        w == (v.val % U8Mod) * U8Mod + (v.val \div U8Mod)
    IN  IF ~v.ok THEN Panic(s, "index_out_of_bounds")
        ELSE AdvancePc([s EXCEPT !.registers =
                           IF pair = "bc" THEN write_bc(s.registers, w)
                                          ELSE write_de(s.registers, w)],
                       3, 12, ovf)

\* 0x01 / 0x11: LD r16, d16
LdR16D16(s, pair, ovf) ==
    LET v == read_word(s.memory, s.pc + 1)
    IN  IF ~v.ok THEN Panic(s, "index_out_of_bounds")
        ELSE AdvancePc([s EXCEPT !.registers =
                           IF pair = "bc" THEN write_bc(s.registers, v.val)
                                          ELSE write_de(s.registers, v.val)],
                       3, 12, ovf)

\* 0x02 / 0x12: LD (r16), A
LdIndR16A(s, pair, ovf) ==
    LET address == IF pair = "bc" THEN bc(s.registers) ELSE de(s.registers)
        w       == write(s.memory, address, <<s.registers.a>>)
    IN  IF ~w.ok THEN Panic(s, "address_out_of_bounds")
        ELSE AdvancePc([s EXCEPT !.memory = w.mem], 1, 8, ovf)

\* 0x03 / 0x13: INC r16 (wrapping_add)
IncR16(s, pair, ovf) ==
    AdvancePc([s EXCEPT !.registers =
                  IF pair = "bc"
                  THEN write_bc(s.registers, (bc(s.registers) + 1) % U16Mod)
                  ELSE write_de(s.registers, (de(s.registers) + 1) % U16Mod)],
              1, 8, ovf)

\* 0x0B: DEC BC (wrapping_sub)
DecBC(s, ovf) ==
    AdvancePc([s EXCEPT !.registers =
                  write_bc(s.registers, (bc(s.registers) + U16Mod - 1) % U16Mod)],
              1, 8, ovf)

\* an INC r8 that takes half_carry from the incremented value
IncR8HalfFromResult(s, reg, ovf) ==
    LET x == s.registers[reg]
        r == (x + 1) % U8Mod
    IN  AdvancePc([s EXCEPT !.registers =
                      [s.registers EXCEPT
                          ![reg] = r,
                          !.f = [s.registers.f EXCEPT
                                    !.zero = (r = 0),
                                    !.half_carry = ((r % 16) + 1 > 15),
                                    !.subtract = FALSE]]],
                  1, 4, ovf)

\* 0x04 / 0x0C / 0x14: INC r8
IncR8(s, reg, ovf) ==
    LET x == s.registers[reg]
        r == (x + 1) % U8Mod
    IN  AdvancePc([s EXCEPT !.registers =
                      [s.registers EXCEPT
                          ![reg] = r,
                          !.f = [s.registers.f EXCEPT
                                    !.zero = (r = 0),
                                    !.half_carry = ((x % 16) + 1 > 15),
                                    !.subtract = FALSE]]],
                  1, 4, ovf)

\* a DEC r8 that tests half_carry the way INC r8 does
DecR8IncTest(s, reg, ovf) ==
    LET x == s.registers[reg]
        r == (x + U8Mod - 1) % U8Mod
    IN  AdvancePc([s EXCEPT !.registers =
                      [s.registers EXCEPT
                          ![reg] = r,
                          !.f = [s.registers.f EXCEPT
                                    !.zero = (r = 0),
                                    !.half_carry = ((x % 16) + 1 > 15),
                                    !.subtract = TRUE]]],
                  1, 4, ovf)

\* 0x05 / 0x0D / 0x15: DEC r8; ((x & 0x0F) as i8) - 1 < 0
DecR8(s, reg, ovf) ==
    LET x == s.registers[reg]
        r == (x + U8Mod - 1) % U8Mod
    IN  AdvancePc([s EXCEPT !.registers =
                      [s.registers EXCEPT
                          ![reg] = r,
                          !.f = [s.registers.f EXCEPT
                                    !.zero = (r = 0),
                                    !.half_carry = ((x % 16) - 1 < 0),
                                    !.subtract = TRUE]]],
                  1, 4, ovf)

\* an LD r8, d8 whose cost depends on the operand
LdR8D8OperandCost(s, reg, ovf) ==
    LET v == read_byte(s.memory, s.pc + 1)
    IN  IF ~v.ok THEN Panic(s, "index_out_of_bounds")
        ELSE AdvancePc([s EXCEPT !.registers =
                           [s.registers EXCEPT ![reg] = v.val]],
                       2, IF v.val >= 128 THEN 12 ELSE 8, ovf)

\* 0x06 / 0x0E / 0x16: LD r8, d8
LdR8D8(s, reg, ovf) ==
    LET v == read_byte(s.memory, s.pc + 1)
    IN  IF ~v.ok THEN Panic(s, "index_out_of_bounds")
        ELSE AdvancePc([s EXCEPT !.registers = [s.registers EXCEPT ![reg] = v.val]],
                       2, 8, ovf)

\* 0x0A: A <- byte after the opcode, pc += 1
LdAN(s, ovf) ==
    LET v == read_byte(s.memory, s.pc + 1)
    IN  IF ~v.ok THEN Panic(s, "index_out_of_bounds")
        ELSE AdvancePc([s EXCEPT !.registers = [s.registers EXCEPT !.a = v.val]],
                       1, 8, ovf)

\* a rotate tail that sets zero from the result
RotateTailZero(s, r, c, ovf) ==
    AdvancePc([s EXCEPT !.registers =
                  [s.registers EXCEPT
                      !.a = r,
                      !.f = [zero |-> (r = 0), subtract |-> FALSE,
                             half_carry |-> FALSE, carry |-> c]]],
              1, 4, ovf)

\* the tail the four rotates share: A <- r, H = N = Z = false, C <- c
RotateTail(s, r, c, ovf) ==
    AdvancePc([s EXCEPT !.registers =
                  [s.registers EXCEPT
                      !.a = r,
                      !.f = [zero |-> FALSE, subtract |-> FALSE,
                             half_carry |-> FALSE, carry |-> c]]],
              1, 4, ovf)

\* 0x07: (a << 1) | (if f.carry {1} else {0})
Rlca(s, ovf) ==
    LET a == s.registers.a
    IN  RotateTail(s, ((a * 2) % U8Mod) + (IF s.registers.f.carry THEN 1 ELSE 0),
                   a >= 128, ovf)

\* 0x0F: (a >> 1) | (if f.carry {0x80} else {0})
Rrca(s, ovf) ==
    LET a == s.registers.a
    IN  RotateTail(s, (a \div 2) + (IF s.registers.f.carry THEN 128 ELSE 0),
                   a % 2 = 1, ovf)

\* 0x17: (a << 1) | (if c {1} else {0}) with c = a & 0x80 == 0x80
Rla(s, ovf) ==
    LET a == s.registers.a
        c == a >= 128
    IN  RotateTail(s, ((a * 2) % U8Mod) + (IF c THEN 1 ELSE 0), c, ovf)

\* 0x1F: (a >> 1) | (if c {0x80} else {0}) with c = a & 0x01 == 0x01
Rra(s, ovf) ==
    LET a == s.registers.a
        c == a % 2 = 1
    IN  RotateTail(s, (a \div 2) + (IF c THEN 128 ELSE 0), c, ovf)

\* an LD (a16), SP that costs 24
LdA16SpCost24(s, ovf) ==
    LET v == read_word(s.memory, s.pc + 1)
        w == write(s.memory, v.val, <<s.sp % U8Mod, s.sp \div U8Mod>>)
    IN  IF ~v.ok THEN Panic(s, "index_out_of_bounds")
        ELSE IF ~w.ok THEN Panic(s, "address_out_of_bounds")
        ELSE AdvancePc([s EXCEPT !.memory = w.mem], 3, 24, ovf)

\* 0x08: LD (a16), SP; sp.to_le_bytes()
LdA16Sp(s, ovf) ==
    LET v == read_word(s.memory, s.pc + 1)
        w == write(s.memory, v.val, <<s.sp % U8Mod, s.sp \div U8Mod>>)
    IN  IF ~v.ok THEN Panic(s, "index_out_of_bounds")
        ELSE IF ~w.ok THEN Panic(s, "address_out_of_bounds")
        ELSE AdvancePc([s EXCEPT !.memory = w.mem], 3, 20, ovf)

\* an ADD HL, BC that computes the flags after HL is written
AddHlBcFlagsAfter(s, ovf) ==
    LET b == bc(s.registers)
        h == (hl(s.registers) + b) % U16Mod
        f == [s.registers.f EXCEPT
                 !.subtract = FALSE,
                 !.half_carry = ((h % 2048) + (b % 2048) > 2047),
                 !.carry = (h > 65535 - b)]
    IN  AdvancePc([s EXCEPT !.registers =
                      write_hl([s.registers EXCEPT !.f = f], h)],
                  1, 8, ovf)

\* 0x09: ADD HL, BC; & 0x07FF is % 2048
AddHlBc(s, ovf) ==
    LET h == hl(s.registers)
        b == bc(s.registers)
        f == [s.registers.f EXCEPT
                 !.subtract = FALSE,
                 !.half_carry = ((h % 2048) + (b % 2048) > 2047),
                 !.carry = (h > 65535 - b)]
    IN  AdvancePc([s EXCEPT !.registers =
                      write_hl([s.registers EXCEPT !.f = f], (h + b) % U16Mod)],
                  1, 8, ovf)

\* 0x10: STOP
Stop(s, ovf) == AdvancePc([s EXCEPT !.stop = TRUE], 2, 4, ovf)

\* a HALT that forgets to set the flag
HaltNotSet(s, ovf) == AdvancePc(s, 1, 4, ovf)

\* 0x76: HALT
Halt(s, ovf) == AdvancePc([s EXCEPT !.halt = TRUE], 1, 4, ovf)

\* an unimplemented opcode that is skipped like a NOP
UnimplementedSkipped(s, ovf) == AdvancePc(s, 1, 4, ovf)

\* 2_u8..=u8::MAX => todo!()
Unimplemented(s, ovf) == Panic(s, "not_yet_implemented")

\* a NOP that also clears the flags
NopClearingFlags(s, ovf) ==
    AdvancePc([s EXCEPT !.registers.f = FlagFromByte(0)], 1, 4, ovf)

\* a NOP that halts the engine
NopHalting(s, ovf) == AdvancePc([s EXCEPT !.halt = TRUE], 1, 4, ovf)

\* 0x00: NOP
Nop(s, ovf) == AdvancePc(s, 1, 4, ovf)

\* match instr { ... }
execute(s, instr, ovf) ==
    CASE instr = 0  -> Nop(s, ovf)
      [] instr = 1  -> LdR16D16(s, "bc", ovf)
      [] instr = 2  -> LdIndR16A(s, "bc", ovf)
      [] instr = 3  -> IncR16(s, "bc", ovf)
      [] instr = 4  -> IncR8(s, "b", ovf)
      [] instr = 5  -> DecR8(s, "b", ovf)
      [] instr = 6  -> LdR8D8(s, "b", ovf)
      [] instr = 7  -> Rlca(s, ovf)
      [] instr = 8  -> LdA16Sp(s, ovf)
      [] instr = 9  -> AddHlBc(s, ovf)
      [] instr = 10 -> LdAN(s, ovf)
      [] instr = 11 -> DecBC(s, ovf)
      [] instr = 12 -> IncR8(s, "c", ovf)
      [] instr = 13 -> DecR8(s, "c", ovf)
      [] instr = 14 -> LdR8D8(s, "c", ovf)
      [] instr = 15 -> Rrca(s, ovf)
      [] instr = 16 -> Stop(s, ovf)
      [] instr = 17 -> LdR16D16(s, "de", ovf)
      [] instr = 18 -> LdIndR16A(s, "de", ovf)
      [] instr = 19 -> IncR16(s, "de", ovf)
      [] instr = 20 -> IncR8(s, "d", ovf)
      [] instr = 21 -> DecR8(s, "d", ovf)
      [] instr = 22 -> LdR8D8(s, "d", ovf)
      [] instr = 23 -> Rla(s, ovf)
      [] instr = 31 -> Rra(s, ovf)
      [] instr = OpHalt -> Halt(s, ovf)
      [] OTHER -> Unimplemented(s, ovf)

\* DMGCPU::cycle: fetch the byte at pc, execute it
cycle(s, ovf) ==
    LET instr == read_byte(s.memory, s.pc)
    IN  IF ~instr.ok THEN Panic(s, "index_out_of_bounds")
        ELSE execute(s, instr.val, ovf)

(***************************************************************************)
(* Inputs: the configured frequency, and the program and register values   *)
(* an engine is loaded with before it runs.                                *)
(***************************************************************************)
\* clock frequencies in Hz (u32): zero, two that divide 10^9, one that does
\* not, and one above 10^9
Speeds == {0, 250000000, 600000000, 1000000000, 2000000000}

\* an engine as DMGCPU::new returns it, then pc, sp and the registers set and
\* `prog` stored at `at` through Memory::write
Load(p, s, r, at, prog) ==
    [pc |-> p, sp |-> s, registers |-> r, at |-> at, prog |-> prog]

Loads ==
    LET R  == NewRegisters
        A  == [R EXCEPT !.a = 90]
    IN  { \* the engine exactly as DMGCPU::new leaves it
          Load(EntryPc, 0, R, EntryPc, <<>>),
          \* HALT
          Load(EntryPc, 0, R, EntryPc, <<OpHalt>>),
          \* NOP; INC B; HALT
          Load(EntryPc, 0, R, EntryPc, <<0, 4, OpHalt>>),
          \* LD (0x0101),SP over its own operand; HALT
          Load(EntryPc, 48879, R, EntryPc, <<8, 1, 1, OpHalt>>),
          \* LD (0xFFFD),SP / LD (0xFFFE),SP / LD (0xFFFF),SP
          Load(EntryPc, 48879, R, EntryPc, <<8, 253, 255>>),
          Load(EntryPc, 48879, R, EntryPc, <<8, 254, 255>>),
          Load(EntryPc, 48879, R, EntryPc, <<8, 255, 255>>),
          \* unimplemented opcodes 0x18, 0x77, 0xFF followed by INC B
          Load(EntryPc, 0, R, EntryPc, <<24, 4>>),
          Load(EntryPc, 0, R, EntryPc, <<119, 4>>),
          Load(EntryPc, 0, R, EntryPc, <<255, 4>>),
          \* LD (BC),A with BC = 0xFFFE and BC = 0xFFFF
          Load(EntryPc, 0, write_bc(A, 65534), EntryPc, <<2>>),
          Load(EntryPc, 0, write_bc(A, 65535), EntryPc, <<2>>),
          \* LD (DE),A with DE = 0x0100 (its own opcode) and DE = 0xFFFF
          Load(EntryPc, 0, write_de(A, 256), EntryPc, <<18>>),
          Load(EntryPc, 0, write_de(A, 65535), EntryPc, <<18>>),
          \* pc at the end of the address space, where execution of a store
          \* without a HALT on the way arrives
          Load(65535, 0, R, EntryPc, <<>>),
          Load(65534, 0, R, 65534, <<6>>),
          Load(65533, 0, R, 65533, <<1, 52>>),
          Load(65534, 0, R, 65534, <<1>>),
          Load(65534, 0, R, 65534, <<16>>),
          Load(65534, 0, R, 65534, <<10>>) }

\* memory.write(0xFF00, &[0x76]) on a new Memory
NewEngineMemory == write(NewMemoryArray, SafetyNetAddr, <<OpHalt>>).mem

(***************************************************************************)
(* State.                                                                  *)
(***************************************************************************)
VARIABLES
    clock_speed,    \* Clock.clock_speed
    total_cycles,   \* Clock.total_cycles, the shared counter
    lock,           \* holder of the counter's mutex: "free" or "clock"
    cpc,            \* pacing thread: "unspawned", "spawned", "wait", "locked",
                    \* "panicked"
    period,         \* pacing thread's `period` in ns
    last_time,      \* pacing thread's deadline base `last_time`
    now,            \* real time in ns since the thread's first Instant::now()
    registers, pc, sp, memory, halt, stop, cycle_count,   \* DMGCPU fields
    rpc,            \* CPU thread: "unbuilt" (before DMGCPU::new), "idle" (run
                    \* not called), "loop" (at the while test),
                    \* "poll", "cycle", "skip" / "stepped" (at yield_now with
                    \* the if body skipped / taken), "returned", "panicked";
                    \* "test" (a test calling cycle() itself), "registers"
                    \* (a bare register file), then the call made on it:
                    \* "write_bc", "write_de", "write_hl", "write_af",
                    \* "from_u8"
    polled,         \* the value the last get_total_cycles call returned
    fault,          \* the panic message of the CPU thread, "none" if none
    retired,        \* instructions retired so far
    runs,           \* calls of run() so far
    arg,            \* the argument of the test module's last call on the
                    \* register file
    loaded          \* the engine as its caller set it up, before any
                    \* instruction (history)

clockVars == <<clock_speed, total_cycles, lock, cpc, period, last_time, now>>
cpuVars   == <<registers, pc, sp, memory, halt, stop, cycle_count>>
runVars   == <<rpc, polled, fault, retired, runs, arg, loaded>>
vars      == <<clockVars, cpuVars, runVars>>

\* the engine record the execute operators work on
Engine ==
    [registers |-> registers, pc |-> pc, sp |-> sp, memory |-> memory,
     halt |-> halt, stop |-> stop]

\* the caller is about to call DMGCPU::new(clock_speed); the engine fields
\* hold no engine yet
Init ==
    /\ clock_speed \in Speeds
    /\ total_cycles = 0
    /\ lock = "free"
    /\ cpc = "unspawned"
    /\ period = 0
    /\ last_time = 0
    /\ now = 0
    /\ registers = NewRegisters
    /\ pc = 0
    /\ sp = 0
    /\ memory = NewMemoryArray
    /\ halt = FALSE
    /\ stop = FALSE
    /\ cycle_count = 0
    /\ rpc = "unbuilt"
    /\ polled = 0
    /\ fault = "none"
    /\ retired = 0
    /\ runs = 0
    /\ arg = 0
    /\ loaded = Engine

\* DMGCPU::new(speed): Clock::new (counter 0), cpu_clock.start() (the thread
\* is spawned), the safety-net HALT written, the struct built; then the
\* caller loads a program
New ==
    /\ rpc = "unbuilt"
    /\ total_cycles' = 0
    /\ cpc' = "spawned"
    /\ \E ld \in Loads :
          /\ registers' = ld.registers
          /\ pc' = ld.pc
          /\ sp' = ld.sp
          /\ memory' = write(NewEngineMemory, ld.at, ld.prog).mem
    /\ halt' = FALSE
    /\ stop' = TRUE
    /\ cycle_count' = 0
    /\ rpc' = "idle"
    /\ loaded' = Engine'
    /\ UNCHANGED <<clock_speed, lock, period, last_time, now,
                   polled, fault, retired, runs, arg>>

(***************************************************************************)
(* The pacing thread (Clock::start's closure).                             *)
(***************************************************************************)
\* 1_000_000_000u64 / (*clock_speed as u64)
Period(speed) == NanosPerSecond \div speed

\* the busy-wait's exit test: not (now - last_time < period)
Due(t, last, per) == ~(t - last < per)

\* a deadline that is never advanced
SameDeadline(last, per) == last

\* last_time += nanoseconds_per_cycle
NextDeadline(last, per) == last + per

\* a tick that adds nothing
NoIncrement(n) == n

\* *cycles += 1
Increment(n) == n + 1

\* the thread starts: the division, then last_time = Instant::now()
ClockStart ==
    /\ cpc = "spawned"
    /\ IF clock_speed = 0
       THEN /\ cpc' = "panicked"
            /\ UNCHANGED <<period, last_time>>
       ELSE /\ cpc' = "wait"
            /\ period' = Period(clock_speed)
            /\ last_time' = now
    /\ UNCHANGED <<clock_speed, total_cycles, lock, now, cpuVars, runVars>>

\* real time passes
Advance ==
    /\ cpc \in {"wait", "locked"}
    /\ now < MaxTime
    /\ now' = now + 1
    /\ UNCHANGED <<clock_speed, total_cycles, lock, cpc, period, last_time,
                   cpuVars, runVars>>

\* the busy-wait ends and total_cycles.lock() succeeds
ClockLock ==
    /\ cpc = "wait"
    /\ Due(now, last_time, period)
    /\ lock = "free"
    /\ total_cycles < MaxTicks
    /\ lock' = "clock"
    /\ cpc' = "locked"
    /\ UNCHANGED <<clock_speed, total_cycles, period, last_time, now,
                   cpuVars, runVars>>

\* a tick that goes back to the busy-wait with the guard still alive
ClockTickHolding ==
    /\ cpc = "locked"
    /\ total_cycles' = Increment(total_cycles)
    /\ last_time' = NextDeadline(last_time, period)
    /\ lock' = "clock"
    /\ cpc' = "wait"
    /\ UNCHANGED <<clock_speed, period, now, cpuVars, runVars>>

\* a tick that also charges the CPU a cycle
ClockTickCharging ==
    /\ cpc = "locked"
    /\ total_cycles' = Increment(total_cycles)
    /\ last_time' = NextDeadline(last_time, period)
    /\ lock' = "free"
    /\ cpc' = "wait"
    /\ cycle_count' = cycle_count + 1
    /\ UNCHANGED <<clock_speed, period, now, registers, pc, sp, memory, halt,
                   stop, runVars>>

\* the increment, the deadline advance, and the guard dropped at the end of
\* the loop body
ClockTick ==
    /\ cpc = "locked"
    /\ total_cycles' = Increment(total_cycles)
    /\ last_time' = NextDeadline(last_time, period)
    /\ lock' = "free"
    /\ cpc' = "wait"
    /\ UNCHANGED <<clock_speed, period, now, cpuVars, runVars>>

(***************************************************************************)
(* The CPU thread (DMGCPU::run).                                           *)
(***************************************************************************)
\* no gate: the step is taken whatever the counter reads
GateAlwaysOpen(read, count) == TRUE

\* a gate that also opens when the counter equals cycle_count
GateOrEqual(read, count) == read >= count

\* get_total_cycles() > self.cycle_count
Gate(read, count) == read > count

\* run() is called
Run ==
    /\ rpc \in {"idle", "returned"}
    /\ runs < MaxRuns
    /\ rpc' = "loop"
    /\ runs' = runs + 1
    /\ UNCHANGED <<clockVars, cpuVars, polled, fault, retired, arg, loaded>>

\* while !self.halt
LoopTest ==
    /\ rpc = "loop"
    /\ rpc' = IF halt THEN "returned" ELSE "poll"
    /\ UNCHANGED <<clockVars, cpuVars, polled, fault, retired, runs, arg, loaded>>

\* get_total_cycles() under the lock, and the comparison
Poll ==
    /\ rpc = "poll"
    /\ lock = "free"
    /\ polled' = total_cycles
    /\ rpc' = IF Gate(total_cycles, cycle_count) THEN "cycle" ELSE "skip"
    /\ UNCHANGED <<clockVars, cpuVars, fault, retired, runs, arg, loaded>>

\* a cycle() that catches cycle_count up with the counter it polled
CycleCatchingUp ==
    /\ rpc = "cycle"
    /\ \E ovf \in OverflowOutcomes :
          LET r == cycle(Engine, ovf)
          IN  /\ registers' = r.st.registers
              /\ pc' = r.st.pc
              /\ sp' = r.st.sp
              /\ memory' = r.st.memory
              /\ halt' = r.st.halt
              /\ stop' = r.st.stop
              /\ cycle_count' = IF polled > cycle_count + r.cost
                                THEN polled ELSE cycle_count + r.cost
              /\ fault' = r.fault
              /\ IF r.fault = "none"
                 THEN /\ rpc' = "stepped"
                      /\ retired' = retired + 1
                 ELSE /\ rpc' = "panicked"
                      /\ retired' = retired
    /\ UNCHANGED <<clockVars, polled, runs, arg, loaded>>

\* self.cycle()
Cycle ==
    /\ rpc = "cycle"
    /\ \E ovf \in OverflowOutcomes :
          LET r == cycle(Engine, ovf)
          IN  /\ registers' = r.st.registers
              /\ pc' = r.st.pc
              /\ sp' = r.st.sp
              /\ memory' = r.st.memory
              /\ halt' = r.st.halt
              /\ stop' = r.st.stop
              /\ cycle_count' = cycle_count + r.cost
              /\ fault' = r.fault
              /\ IF r.fault = "none"
                 THEN /\ rpc' = "stepped"
                      /\ retired' = retired + 1
                 ELSE /\ rpc' = "panicked"
                      /\ retired' = retired
    /\ UNCHANGED <<clockVars, polled, runs, arg, loaded>>

\* thread::yield_now(), back to the while test
Yield ==
    /\ rpc \in {"skip", "stepped"}
    /\ rpc' = "loop"
    /\ UNCHANGED <<clockVars, cpuVars, polled, fault, retired, runs, arg, loaded>>

Next ==
    \/ New
    \/ ClockStart
    \/ Advance
    \/ ClockLock
    \/ ClockTick
    \/ Run
    \/ LoopTest
    \/ Poll
    \/ Cycle
    \/ Yield

Spec == Init /\ [][Next]_vars

(***************************************************************************)
(* Properties.                                                             *)
(***************************************************************************)
\* the largest cycle cost an arm of execute returns (0x08: 20)
MaxCost == 20

\* a step of the CPU thread that is a poll of the clock
PollStep == rpc = "poll" /\ rpc' # "poll"

\* a step of the CPU thread that is a call of cycle()
CycleStep == rpc = "cycle" /\ rpc' # "cycle"

\* C1 as stated: at every poll of the clock by run(), cycle_count is less
\* than or equal to the counter value the poll reads.
C1_PollNeverBehindCount == [][PollStep => cycle_count <= polled']_vars

\* C1 amended: at every poll of the clock by run(), cycle_count exceeds the
\* counter value read by at most MaxCost - 1 (the gate opens only on a
\* counter strictly above cycle_count, and one instruction then adds at most
\* MaxCost).
C1_PollWithinOneInstruction ==
    [][PollStep => cycle_count <= polled' + (MaxCost - 1)]_vars

\* C1 witness: a poll has just read a counter that cycle_count is ahead of
\* by exactly MaxCost - 1.
C1_Witness ==
    rpc = "skip" /\ retired = 1 /\ cycle_count = polled + (MaxCost - 1)

\* C2: the pacing gate. Once the engine is built, CPU state and the retired
\* count change only in a cycle() call, which is entered only from a poll that read a counter
\* strictly greater than cycle_count (and cycle_count has not moved since);
\* a poll that read a counter not strictly greater skips the step, the
\* iteration leaves all CPU state unchanged, and the loop test that follows
\* sends the thread back to poll.
C2_PacingGate ==
    [][ /\ (rpc # "unbuilt" /\ (cpuVars' # cpuVars \/ retired' # retired))
            => (rpc = "cycle" /\ polled > cycle_count)
        /\ rpc' = "cycle" => (rpc \in {"poll", "cycle"} /\ polled' > cycle_count')
        /\ (PollStep /\ polled' > cycle_count) => rpc' = "cycle"
        /\ (PollStep /\ ~(polled' > cycle_count))
            => (rpc' = "skip" /\ cpuVars' = cpuVars)
        /\ (rpc = "skip" /\ rpc' # rpc)
            => (rpc' = "loop" /\ ~halt /\ cpuVars' = cpuVars /\ polled' = polled)
        /\ (rpc = "loop" /\ ~halt /\ rpc' # rpc) => rpc' = "poll"
      ]_vars

\* C2 witness: after an instruction was retired a poll read a counter not
\* above cycle_count and the step was skipped.
C2_Witness ==
    rpc = "skip" /\ retired >= 1 /\ polled >= 1 /\ polled <= cycle_count

\* C3: the counter starts at 0, a tick of the pacing thread increases it by
\* exactly 1, no other step changes it, and each read by get_total_cycles
\* returns at least what the previous read returned.
C3_ClockMonotone ==
    /\ total_cycles = 0
    /\ [][ /\ (cpc = "locked" /\ cpc' # "locked") => total_cycles' = total_cycles + 1
           /\ ~(cpc = "locked" /\ cpc' # "locked") => total_cycles' = total_cycles
           /\ polled' >= polled
           /\ PollStep => polled' = total_cycles
         ]_vars

\* C3 witness: the counter has ticked more than once and a later read
\* returned more than an earlier read (the first read that opened the gate
\* for the one retired instruction returned at most polled).
C3_Witness ==
    total_cycles >= 3 /\ polled >= 2 /\ retired = 1 /\ rpc = "skip"

\* C4: whenever the pacing thread runs, counter * period <= time elapsed
\* since its first Instant (now is measured from that Instant), so the n-th
\* increment is never before start + n periods.
C4_NeverAheadOfDeadline ==
    cpc \in {"wait", "locked"} => total_cycles * period <= now

\* C4 witness: several increments, the last one exactly on its deadline.
C4_Witness ==
    cpc = "wait" /\ period >= 1 /\ total_cycles >= 2
        /\ total_cycles * period = now

RECURSIVE GCD(_, _)
GCD(m, n) == IF n = 0 THEN m ELSE GCD(n, m % n)

\* clock_speed / 10^9 (increments per nanosecond) in lowest terms
FreqNum == clock_speed \div GCD(clock_speed, NanosPerSecond)
FreqDen == NanosPerSecond \div GCD(clock_speed, NanosPerSecond)

\* C5 as stated: for every positive frequency F the counter never exceeds
\* F * (elapsed seconds) by more than one increment, i.e.
\* (counter - 1) <= F * now / 10^9 with now in nanoseconds.
C5_WithinOneOfFrequency ==
    (clock_speed > 0 /\ cpc \in {"wait", "locked"})
        => (total_cycles - 1) * FreqDen <= FreqNum * now

\* C6 as stated: with frequency 0 construction fails, so no pacing thread is
\* ever spawned, no division by zero is evaluated (the thread never panics
\* on it) and no engine is built.
C6_ZeroFrequencyRejected ==
    clock_speed = 0 => (cpc = "unspawned" /\ rpc = "unbuilt")

\* the opcode byte at pc, when pc is inside the array
FetchIs(ops) == pc < MemLen /\ Cell(memory, pc) \in ops

\* C7: HALT is terminal. Executing 0x76 sets halt, adds 1 to pc and 4 to
\* cycle_count; halt is never cleared; while halt is true no step changes
\* CPU state or retires an instruction; run() returns only with halt true
\* and its loop test returns exactly when halt is true.
C7_HaltTerminal ==
    [][ /\ (CycleStep /\ FetchIs({OpHalt}))
            => /\ halt' /\ pc' = pc + 1 /\ cycle_count' = cycle_count + 4
               /\ retired' = retired + 1 /\ rpc' = "stepped"
        /\ halt => halt'
        /\ halt => (cpuVars' = cpuVars /\ retired' = retired)
        /\ (rpc' = "returned" /\ rpc # "returned") => (halt /\ rpc = "loop")
        /\ (rpc = "loop" /\ rpc' # rpc) => (rpc' = "returned" <=> halt)
      ]_vars

\* C7 witness: a second run() call on an engine halted by a retired HALT has
\* returned.
C7_Witness ==
    halt /\ rpc = "returned" /\ runs = 2 /\ retired >= 1
        /\ Cell(memory, pc - 1) = OpHalt

\* the opcodes execute has an arm for: 0x00..0x17, 0x1F, 0x76
Implemented == (0..23) \cup {31, OpHalt}

\* C8: a cycle() that fetches an opcode outside the implemented set panics
\* ("not yet implemented") with registers, flags, pc, sp, memory, halt, stop
\* and cycle_count unchanged, and after a panic of the CPU thread no
\* instruction is retired and no CPU state changes.
C8_UnimplementedFatal ==
    [][ /\ (CycleStep /\ pc < MemLen /\ ~FetchIs(Implemented))
            => /\ rpc' = "panicked" /\ fault' = "not_yet_implemented"
               /\ cpuVars' = cpuVars /\ retired' = retired
        /\ rpc = "panicked"
            => (rpc' = "panicked" /\ cpuVars' = cpuVars /\ retired' = retired)
      ]_vars

\* C8 witness: the engine panicked on opcode 0xFF, the clock went on for
\* five more ticks and nothing was retired.
C8_Witness ==
    rpc = "panicked" /\ fault = "not_yet_implemented" /\ FetchIs({255})
        /\ retired = 0 /\ total_cycles >= 5

\* the write the instruction at pc asks of Memory::write
WriteAddress ==
    IF FetchIs({2}) THEN bc(registers)
    ELSE IF FetchIs({18}) THEN de(registers)
    ELSE Cell(memory, pc + 1) + U8Mod * Cell(memory, pc + 2)
WriteData ==
    IF FetchIs({2, 18}) THEN <<registers.a>>
    ELSE <<sp % U8Mod, sp \div U8Mod>>
WriteStep ==
    CycleStep /\ (FetchIs({2, 18}) \/ (FetchIs({8}) /\ pc + 2 < MemLen))

\* C9: a write of len bytes at address a with a + len > 65,535 panics and
\* changes no memory byte (nor any other CPU state); a write with
\* a + len <= 65,535 sets bytes a..a+len-1 to the data and leaves every
\* other byte as it was.  So LD (BC),A / LD (DE),A with the pair 0xFFFF and
\* LD (a16),SP with a16 >= 0xFFFE panic and store nothing.
C9_WriteBounds ==
    [][ WriteStep =>
          IF WriteAddress + Len(WriteData) > MemLen
          THEN /\ rpc' = "panicked" /\ fault' = "address_out_of_bounds"
               /\ cpuVars' = cpuVars
          ELSE /\ rpc' = "stepped"
               /\ \A x \in (DOMAIN memory) \cup (DOMAIN memory')
                            \cup (WriteAddress - 1 .. WriteAddress + Len(WriteData)) :
                     Cell(memory', x) =
                        IF x >= WriteAddress /\ x < WriteAddress + Len(WriteData)
                        THEN WriteData[x - WriteAddress + 1]
                        ELSE Cell(memory, x)
      ]_vars

\* C9 witness: LD (0xFFFE),SP with a non-zero SP panicked on the bounds
\* assertion.
C9_Witness ==
    /\ rpc = "panicked" /\ fault = "address_out_of_bounds"
    /\ FetchIs({8}) /\ WriteAddress = MemLen - 1 /\ sp # 0

\* the instruction at pc reads a byte at 0xFFFF, or a word that starts at
\* 0xFFFE or 0xFFFF
ReadsPastEnd ==
    \/ pc = MemLen
    \/ FetchIs({6, 10, 14, 22}) /\ pc + 1 = MemLen
    \/ FetchIs({1, 8, 17}) /\ pc + 1 \in {MemLen - 1, MemLen}

\* C10: the array has 65,535 bytes (indices 0..0xFFFE). A cycle() whose
\* opcode fetch or immediate byte read is at 0xFFFF, or whose word read
\* starts at 0xFFFE or 0xFFFF, panics on the index with all CPU state
\* (registers, pc, cycle_count included) unchanged and nothing retired; no
\* other cycle() panics on an index.
C10_ReadBounds ==
    [][ /\ (CycleStep /\ ReadsPastEnd)
            => /\ rpc' = "panicked" /\ fault' = "index_out_of_bounds"
               /\ cpuVars' = cpuVars /\ retired' = retired
        /\ (CycleStep /\ ~ReadsPastEnd) => fault' # "index_out_of_bounds"
      ]_vars

\* C10 witness: LD BC,d16 at 0xFFFD, whose word read starts at 0xFFFE,
\* panicked on the index.
C10_Witness ==
    /\ rpc = "panicked" /\ fault = "index_out_of_bounds"
    /\ pc = MemLen - 2 /\ FetchIs({1}) /\ registers = NewRegisters

(***************************************************************************)
(* The test module: an engine built by TestDMGCPU::new, its registers and  *)
(* a program set by the test, and cycle() called directly (no run(), no    *)
(* pacing by the clock).                                                   *)
(***************************************************************************)
\* cycle() calls one test makes
MaxTestCycles == 1

\* TestDMGCPU::new: DMGCPU::new(4_190_000)
TestSpeed == 4190000

\* a register file whose registers are told apart by their values
Marked ==
    [a |-> 18, b |-> 52, c |-> 86, d |-> 120, e |-> 154,
     f |-> FlagFromByte(0), h |-> 188, l |-> 222]

\* every FlagRegister
Flags == {FlagFromByte(16 * n) : n \in 0 .. 15}

\* 16-bit operands around the carry boundaries of bits 11, 12 and 15
Words == {0, 1, 4, 2047, 2048, 4095, 4096, 32767, 32768, 63488, 65534, 65535}

\* the register an INC r8 / DEC r8 opcode works on
Target(op) == IF op \in {4, 5} THEN "b" ELSE IF op \in {12, 13} THEN "c" ELSE "d"

\* a test: the registers, sp and stop it sets and the program it writes at
\* 0x0100
Case(r, p, st, prog) == [registers |-> r, sp |-> p, stop |-> st, prog |-> prog]

\* INC r8 / DEC r8 on every value of the register under every flag register
IncDecCases ==
    {Case([[Marked EXCEPT ![Target(op)] = x] EXCEPT !.f = fl], 48879, TRUE,
          <<op, op>>) :
        op \in {4, 5, 12, 13, 20, 21}, x \in 0 .. 255, fl \in Flags}

\* the four rotates on every value of A under every flag register
RotateCases ==
    {Case([Marked EXCEPT !.a = x, !.f = fl], 48879, TRUE, <<op, op>>) :
        op \in {7, 15, 23, 31}, x \in 0 .. 255, fl \in Flags}

\* ADD HL,BC on the boundary operands under every flag register
AddCases ==
    {Case(write_bc(write_hl([Marked EXCEPT !.f = fl], x), y), 48879, TRUE,
          <<9, 9>>) :
        x \in Words, y \in Words, fl \in Flags}

\* every opcode with an arm and three without, on a fresh and on a marked
\* register file, with stop set and cleared
OpcodeCases ==
    {Case(r, p, st, <<op, 239, 190>>) :
        op \in (0 .. 24) \cup {31, OpHalt, 255},
        r \in {NewRegisters} \cup {[Marked EXCEPT !.f = fl] : fl \in Flags},
        p \in {0, 48879}, st \in BOOLEAN}

\* immediate bytes: the ends, the nibble and sign boundaries, the marks
ImmBytes == {0, 1, 15, 16, 18, 52, 85, 127, 128, 170, 190, 239, 240, 254, 255}

\* LD BC,d16 / LD DE,d16 on every pair of immediate bytes
LdCases ==
    {Case([Marked EXCEPT !.f = fl], 48879, TRUE, <<op, lo, hi>>) :
        op \in {1, 17}, lo \in ImmBytes, hi \in ImmBytes,
        fl \in {FlagFromByte(0), FlagFromByte(160), FlagFromByte(240)}}

Cases ==
    IncDecCases \cup RotateCases \cup AddCases \cup OpcodeCases \cup LdCases

\* the test has built its engine and set it up
InitStep ==
    /\ clock_speed = TestSpeed
    /\ total_cycles = 0
    /\ lock = "free"
    /\ cpc = "spawned"
    /\ period = 0
    /\ last_time = 0
    /\ now = 0
    /\ \E t \in Cases :
          /\ registers = t.registers
          /\ sp = t.sp
          /\ stop = t.stop
          /\ memory = write(NewEngineMemory, EntryPc, t.prog).mem
    /\ pc = EntryPc
    /\ halt = FALSE
    /\ cycle_count = 0
    /\ rpc = "test"
    /\ polled = 0
    /\ fault = "none"
    /\ retired = 0
    /\ runs = 0
    /\ arg = 0
    /\ loaded = Engine

\* TestDMGCPU::cycle: self.cpu.cycle()
TestCycle ==
    /\ rpc = "test"
    /\ retired < MaxTestCycles
    /\ \E ovf \in OverflowOutcomes :
          LET r == cycle(Engine, ovf)
          IN  /\ registers' = r.st.registers
              /\ pc' = r.st.pc
              /\ sp' = r.st.sp
              /\ memory' = r.st.memory
              /\ halt' = r.st.halt
              /\ stop' = r.st.stop
              /\ cycle_count' = cycle_count + r.cost
              /\ fault' = r.fault
              /\ IF r.fault = "none"
                 THEN /\ rpc' = "test"
                      /\ retired' = retired + 1
                 ELSE /\ rpc' = "panicked"
                      /\ retired' = retired
    /\ UNCHANGED <<clockVars, polled, runs, arg, loaded>>

NextStep == TestCycle

SpecStep == InitStep /\ [][NextStep]_vars

\* a call of cycle(), by run() or by a test
CycleCall == CycleStep \/ (rpc = "test" /\ rpc' # "unbuilt")

(***************************************************************************)
(* The register file on its own: one pair write, or one decoding of a flag *)
(* byte, on a Registers value.                                             *)
(***************************************************************************)
\* a register file, fresh or marked with every flag set
InitRegs ==
    /\ clock_speed = TestSpeed
    /\ total_cycles = 0
    /\ lock = "free"
    /\ cpc = "unspawned"
    /\ period = 0
    /\ last_time = 0
    /\ now = 0
    /\ registers \in {NewRegisters, [Marked EXCEPT !.f = FlagFromByte(240)]}
    /\ pc = 0
    /\ sp = 0
    /\ memory = NewMemoryArray
    /\ halt = FALSE
    /\ stop = FALSE
    /\ cycle_count = 0
    /\ rpc = "registers"
    /\ polled = 0
    /\ fault = "none"
    /\ retired = 0
    /\ runs = 0
    /\ arg = 0
    /\ loaded = Engine

\* registers.write_bc(v)
WriteBc ==
    /\ rpc = "registers"
    /\ \E v \in 0 .. U16Mod - 1 :
          registers' = write_bc(registers, v) /\ arg' = v
    /\ rpc' = "write_bc"
    /\ UNCHANGED <<clockVars, pc, sp, memory, halt, stop, cycle_count,
                   polled, fault, retired, runs, loaded>>

\* registers.write_de(v)
WriteDe ==
    /\ rpc = "registers"
    /\ \E v \in 0 .. U16Mod - 1 :
          registers' = write_de(registers, v) /\ arg' = v
    /\ rpc' = "write_de"
    /\ UNCHANGED <<clockVars, pc, sp, memory, halt, stop, cycle_count,
                   polled, fault, retired, runs, loaded>>

\* registers.write_hl(v)
WriteHl ==
    /\ rpc = "registers"
    /\ \E v \in 0 .. U16Mod - 1 :
          registers' = write_hl(registers, v) /\ arg' = v
    /\ rpc' = "write_hl"
    /\ UNCHANGED <<clockVars, pc, sp, memory, halt, stop, cycle_count,
                   polled, fault, retired, runs, loaded>>

\* registers.write_af(v)
WriteAf ==
    /\ rpc = "registers"
    /\ \E v \in 0 .. U16Mod - 1 :
          registers' = write_af(registers, v) /\ arg' = v
    /\ rpc' = "write_af"
    /\ UNCHANGED <<clockVars, pc, sp, memory, halt, stop, cycle_count,
                   polled, fault, retired, runs, loaded>>

\* registers.f = FlagRegister::from(b)
FromU8 ==
    /\ rpc = "registers"
    /\ \E b \in 0 .. U8Mod - 1 :
          registers' = [registers EXCEPT !.f = FlagFromByte(b)] /\ arg' = b
    /\ rpc' = "from_u8"
    /\ UNCHANGED <<clockVars, pc, sp, memory, halt, stop, cycle_count,
                   polled, fault, retired, runs, loaded>>

NextRegs ==
    \/ WriteBc
    \/ WriteDe
    \/ WriteHl
    \/ WriteAf
    \/ FromU8

SpecRegs == InitRegs /\ [][NextRegs]_vars

\* C13: register-pair round trip. For every 16-bit v, reading BC, DE or HL
\* after writing v to it returns v, and reading AF after writing v to AF
\* returns v with its low four bits cleared (v & 0xFFF0).
C13_PairRoundTrip ==
    /\ rpc = "write_bc" => bc(registers) = arg
    /\ rpc = "write_de" => de(registers) = arg
    /\ rpc = "write_hl" => hl(registers) = arg
    /\ rpc = "write_af" => af(registers) = arg - (arg % 16)

\* C13 witness: 0xFFFF was written to AF of the fresh register file and
\* reads back as 0xFFF0.
C13_Witness ==
    /\ rpc = "write_af" /\ arg = 65535 /\ af(registers) = 65520
    /\ registers.b = 0

\* C14: flag-byte round trip. For every byte b, decoding b into a
\* FlagRegister and encoding it back gives b with its low nibble cleared
\* (b & 0xF0), and for every FlagRegister, encoding it and decoding the byte
\* gives the same FlagRegister.
C14_FlagRoundTrip ==
    rpc = "from_u8"
        => /\ ByteFromFlag(registers.f) = arg - (arg % 16)
           /\ FlagFromByte(ByteFromFlag(registers.f)) = registers.f
           /\ registers.f \in Flags

\* C14 witness: 0xAF was decoded to zero and half_carry set, subtract and
\* carry clear, which encodes to 0xA0.
C14_Witness ==
    /\ rpc = "from_u8" /\ arg = 175
    /\ registers.f = [zero |-> TRUE, subtract |-> FALSE,
                      half_carry |-> TRUE, carry |-> FALSE]
    /\ ByteFromFlag(registers.f) = 160

\* C15: NOP frame. A cycle() that fetches 0x00 leaves the eight registers,
\* the four flags, sp, memory, halt and stop unchanged, adds exactly 1 to pc
\* and exactly 4 to cycle_count.
C15_NopFrame ==
    [][ (CycleCall /\ FetchIs({0}))
            => /\ registers' = registers /\ sp' = sp /\ memory' = memory
               /\ halt' = halt /\ stop' = stop
               /\ pc' = pc + 1 /\ cycle_count' = cycle_count + 4
               /\ retired' = retired + 1
      ]_vars

\* C15 witness: a test's NOP retired on the marked registers with every
\* flag set, stop cleared and sp 0xBEEF.
C15_Witness ==
    /\ rpc = "test" /\ retired = 1 /\ Cell(memory, EntryPc) = 0
    /\ registers = [Marked EXCEPT !.f = FlagFromByte(240)]
    /\ sp = 48879 /\ ~stop /\ ~halt
    /\ pc = EntryPc + 1 /\ cycle_count = 4

\* C16: INC r8 (0x04 B, 0x0C C, 0x14 D). For every prior value x of the
\* register it becomes (x + 1) mod 256, zero is set iff the result is 0,
\* subtract is cleared, half_carry is set iff the low nibble of x was 0xF,
\* carry and every other register are unchanged, pc advances by 1 and the
\* cost is 4.
C16_IncR8 ==
    [][ (CycleCall /\ FetchIs({4, 12, 20}))
            => LET t == Target(Cell(memory, pc))
                   x == registers[t]
                   r == (x + 1) % 256
               IN  /\ registers' =
                          [registers EXCEPT
                              ![t] = r,
                              !.f = [zero |-> (r = 0), subtract |-> FALSE,
                                     half_carry |-> (x % 16 = 15),
                                     carry |-> registers.f.carry]]
                   /\ pc' = pc + 1 /\ cycle_count' = cycle_count + 4
      ]_vars

\* C16 witness: INC B retired on B = 0xFF with carry set: B is 0, zero and
\* half_carry are set, subtract is clear, carry is still set and C is
\* untouched.
C16_Witness ==
    /\ rpc = "test" /\ retired = 1 /\ Cell(memory, EntryPc) = 4
    /\ registers.b = 0 /\ registers.c = 86
    /\ registers.f = [zero |-> TRUE, subtract |-> FALSE,
                      half_carry |-> TRUE, carry |-> TRUE]
    /\ pc = EntryPc + 1 /\ cycle_count = 4

\* C17: DEC r8 (0x05 B, 0x0D C, 0x15 D). For every prior value x of the
\* register it becomes (x - 1) mod 256, zero is set iff the result is 0,
\* subtract is set, half_carry is set iff the low nibble of x was 0 and
\* cleared otherwise, carry and every other register are unchanged, pc
\* advances by 1 and the cost is 4.
C17_DecR8 ==
    [][ (CycleCall /\ FetchIs({5, 13, 21}))
            => LET t == Target(Cell(memory, pc))
                   x == registers[t]
                   r == (x + 255) % 256
               IN  /\ registers' =
                          [registers EXCEPT
                              ![t] = r,
                              !.f = [zero |-> (r = 0), subtract |-> TRUE,
                                     half_carry |-> (x % 16 = 0),
                                     carry |-> registers.f.carry]]
                   /\ pc' = pc + 1 /\ cycle_count' = cycle_count + 4
      ]_vars

\* C17 witness: DEC D retired on D = 0x00 with carry set: D is 0xFF, zero is
\* clear, subtract and half_carry are set, carry is still set.
C17_Witness ==
    /\ rpc = "test" /\ retired = 1 /\ Cell(memory, EntryPc) = 21
    /\ registers.d = 255 /\ registers.e = 154
    /\ registers.f = [zero |-> FALSE, subtract |-> TRUE,
                      half_carry |-> TRUE, carry |-> TRUE]
    /\ pc = EntryPc + 1 /\ cycle_count = 4

\* C18: ADD HL,BC (0x09). HL becomes (HL + BC) mod 65536, carry is set iff
\* HL + BC > 0xFFFF, half_carry is set iff (HL & 0x07FF) + (BC & 0x07FF) >
\* 0x07FF, both taken from the values before the add, subtract is cleared,
\* BC, the zero flag and every other register keep their values, pc advances
\* by 1 and the cost is 8.
C18_AddHlBc ==
    [][ (CycleCall /\ FetchIs({9}))
            => LET h == hl(registers)
                   b == bc(registers)
                   sum == (h + b) % 65536
               IN  /\ registers' =
                          [registers EXCEPT
                              !.h = sum \div 256,
                              !.l = sum % 256,
                              !.f = [zero |-> registers.f.zero,
                                     subtract |-> FALSE,
                                     half_carry |->
                                         ((h % 2048) + (b % 2048) > 2047),
                                     carry |-> (h + b > 65535)]]
                   /\ hl(registers') = sum /\ bc(registers') = b
                   /\ pc' = pc + 1 /\ cycle_count' = cycle_count + 8
      ]_vars

\* C18 witness: ADD HL,BC retired on HL = 0xFFFE, BC = 0x0004 with zero
\* set: HL is 0x0002, carry and half_carry are set, zero is still set.
C18_Witness ==
    /\ rpc = "test" /\ retired = 1 /\ Cell(memory, EntryPc) = 9
    /\ hl(registers) = 2 /\ bc(registers) = 4
    /\ registers.f = [zero |-> TRUE, subtract |-> FALSE,
                      half_carry |-> TRUE, carry |-> TRUE]
    /\ pc = EntryPc + 1 /\ cycle_count = 8

\* C19 as stated: rotate feedback. For every value of A and of the prior
\* carry flag, RLA (0x17) and RRA (0x1F) put the prior carry flag into the
\* vacated bit (bit 0 for RLA, bit 7 for RRA), and RLCA (0x07) and RRCA
\* (0x0F) put the bit rotated out of A into the vacated bit, whatever the
\* prior carry flag.
C19_RotateFeedback ==
    [][ (CycleCall /\ FetchIs({7, 15, 23, 31}))
            => LET op == Cell(memory, pc)
                   a == registers.a
                   cin == IF registers.f.carry THEN 1 ELSE 0
               IN  registers'.a =
                       CASE op = 23 -> ((a * 2) % 256) + cin
                         [] op = 31 -> (a \div 2) + 128 * cin
                         [] op = 7  -> ((a * 2) % 256) + (a \div 128)
                         [] op = 15 -> (a \div 2) + 128 * (a % 2)
      ]_vars

\* C20: after RLCA, RRCA, RLA or RRA, from every prior state, the carry
\* flag is the bit rotated out of A (old bit 7 for the left rotates, old bit
\* 0 for the right rotates), zero, half_carry and subtract are false, the
\* registers other than A are unchanged, pc has advanced by 1 and the cost
\* is 4.
C20_RotateFlags ==
    [][ (CycleCall /\ FetchIs({7, 15, 23, 31}))
            => LET a == registers.a
                   out == IF Cell(memory, pc) \in {7, 23}
                          THEN a \div 128 = 1 ELSE a % 2 = 1
               IN  /\ registers'.f = [zero |-> FALSE, subtract |-> FALSE,
                                      half_carry |-> FALSE, carry |-> out]
                   /\ \A reg \in {"b", "c", "d", "e", "h", "l"} :
                          registers'[reg] = registers[reg]
                   /\ pc' = pc + 1 /\ cycle_count' = cycle_count + 4
      ]_vars

\* C20 witness: RRA retired on an odd A: carry is the only flag set and B..L
\* hold their marks.
C20_Witness ==
    /\ rpc = "test" /\ retired = 1 /\ Cell(memory, EntryPc) = 31
    /\ registers.f = [zero |-> FALSE, subtract |-> FALSE,
                      half_carry |-> FALSE, carry |-> TRUE]
    /\ [registers EXCEPT !.a = 18, !.f = FlagFromByte(0)] = Marked
    /\ pc = EntryPc + 1 /\ cycle_count = 4

\* C12 as stated: the Stopped flag is set by the STOP opcode. stop is false
\* at construction, a retired 0x10 sets it (and adds 2 to pc and 4 to
\* cycle_count), and no other step changes it: stop is true iff a STOP has
\* been executed.
C12_StopIffStopExecuted ==
    [][ /\ (rpc = "unbuilt" /\ rpc' # "unbuilt") => ~stop'
        /\ (CycleCall /\ FetchIs({16}) /\ retired' = retired + 1)
               => (stop' /\ pc' = pc + 2 /\ cycle_count' = cycle_count + 4)
        /\ (rpc # "unbuilt" /\ ~(CycleCall /\ FetchIs({16})))
               => stop' = stop
      ]_vars

(***************************************************************************)
(* main(): DMGCPU::new(CPU_SPEED) and run() to completion, with the two    *)
(* threads scheduled fairly. One pass of the pacing loop is a single step, *)
(* with the pacing thread waking at its deadline; run()'s iterations up to *)
(* and including the first whose poll opens the gate are a single step     *)
(* (an iteration whose poll does not open it changes no engine field).     *)
(***************************************************************************)
\* ticks the counter may be ahead of cycle_count
MaxLead == 2

\* const CPU_SPEED: u32 = 4_190_000
CPU_SPEED == 4190000

\* DMGCPU::new(CPU_SPEED) has returned; no program is loaded
InitNet ==
    /\ clock_speed = CPU_SPEED
    /\ total_cycles = 0
    /\ lock = "free"
    /\ cpc = "spawned"
    /\ period = 0
    /\ last_time = 0
    /\ now = 0
    /\ registers = NewRegisters
    /\ pc = EntryPc
    /\ sp = 0
    /\ memory = NewEngineMemory
    /\ halt = FALSE
    /\ stop = TRUE
    /\ cycle_count = 0
    /\ rpc = "idle"
    /\ polled = 0
    /\ fault = "none"
    /\ retired = 0
    /\ runs = 0
    /\ arg = 0
    /\ loaded = Engine

\* one pass of the pacing loop: the busy-wait to the deadline, the lock, the
\* increment, the deadline advance, the unlock
NetTick ==
    /\ cpc = "wait"
    /\ lock = "free"
    /\ total_cycles < cycle_count + MaxLead
    /\ now' = IF Due(now, last_time, period) THEN now ELSE last_time + period
    /\ total_cycles' = Increment(total_cycles)
    /\ last_time' = NextDeadline(last_time, period)
    /\ UNCHANGED <<clock_speed, lock, cpc, period, cpuVars, runVars>>

\* run()'s loop: the while test, then the poll that opens the gate, cycle()
\* and yield_now; the value read is compared and dropped
NetIteration ==
    /\ rpc = "loop"
    /\ lock = "free"
    /\ IF halt
       THEN /\ rpc' = "returned"
            /\ UNCHANGED <<cpuVars, polled, fault, retired>>
       ELSE /\ Gate(total_cycles, cycle_count)
            /\ polled' = polled
            /\ \E ovf \in OverflowOutcomes :
                  LET r == cycle(Engine, ovf)
                  IN  /\ registers' = r.st.registers
                      /\ pc' = r.st.pc
                      /\ sp' = r.st.sp
                      /\ memory' = r.st.memory
                      /\ halt' = r.st.halt
                      /\ stop' = r.st.stop
                      /\ cycle_count' = cycle_count + r.cost
                      /\ fault' = r.fault
                      /\ rpc' = IF r.fault = "none" THEN "loop"
                                ELSE "panicked"
                      /\ retired' = IF r.fault = "none" THEN retired + 1
                                    ELSE retired
    /\ UNCHANGED <<clockVars, runs, arg, loaded>>

NextNet ==
    \/ ClockStart
    \/ NetTick
    \/ Run
    \/ NetIteration

\* both threads keep being scheduled
NetFairness ==
    /\ WF_vars(ClockStart)
    /\ WF_vars(NetTick)
    /\ WF_vars(Run)
    /\ WF_vars(NetIteration)

SpecNet == InitNet /\ [][NextNet]_vars /\ NetFairness

\* NOPs between the entry point and the safety net
SledLength == SafetyNetAddr - EntryPc

\* C11: safety-net termination. On a fresh engine whose clock has a
\* positive frequency and keeps ticking, run() eventually returns, and
\* whenever it has returned halt is true, pc is 0xFF01, every register and
\* flag is zero and cycle_count is 260,100 (65,024 NOPs and one HALT at 4
\* cycles each).
C11_SafetyNetTermination ==
    /\ <>(rpc = "returned")
    /\ [](rpc = "returned"
            => /\ halt /\ pc = SafetyNetAddr + 1
               /\ registers = NewRegisters
               /\ cycle_count = 260100 /\ retired = 65025)

\* C11 witness: run() has returned from the safety net after the whole
\* sled.
C11_Witness ==
    /\ rpc = "returned" /\ runs = 1 /\ halt
    /\ pc = 65281 /\ retired = SledLength + 1
    /\ cycle_count = 4 * (SledLength + 1)
    /\ total_cycles > 4 * SledLength

\* C21: LD r16,d16 (0x01 BC, 0x11 DE). With immediate bytes lo at pc + 1 and
\* hi at pc + 2 the pair becomes hi * 256 + lo, the flags, memory and every
\* register outside the pair are unchanged, pc advances by 3 and the cost is
\* 12.
C21_LdR16D16 ==
    [][ (CycleCall /\ FetchIs({1, 17}) /\ pc + 2 < MemLen)
            => LET lo == Cell(memory, pc + 1)
                   hi == Cell(memory, pc + 2)
               IN  /\ retired' = retired + 1
                   /\ registers' =
                          IF Cell(memory, pc) = 1
                          THEN [registers EXCEPT !.b = hi, !.c = lo]
                          ELSE [registers EXCEPT !.d = hi, !.e = lo]
                   /\ IF Cell(memory, pc) = 1
                      THEN bc(registers') = hi * 256 + lo
                      ELSE de(registers') = hi * 256 + lo
                   /\ memory' = memory /\ sp' = sp
                   /\ pc' = pc + 3 /\ cycle_count' = cycle_count + 12
      ]_vars

\* C21 witness: LD DE,d16 retired on the bytes 0xEF, 0xBE with zero and
\* half_carry set: DE is 0xBEEF, the other registers hold their marks.
C21_Witness ==
    /\ rpc = "test" /\ retired = 1 /\ Cell(memory, EntryPc) = 17
    /\ de(registers) = 48879 /\ registers.d = 190 /\ registers.e = 239
    /\ [registers EXCEPT !.d = 120, !.e = 154] =
           [Marked EXCEPT !.f = FlagFromByte(160)]
    /\ pc = EntryPc + 3 /\ cycle_count = 12

\* bytes an arm of execute reads after its opcode byte: read_word(pc + 1) in
\* 0x01, 0x08, 0x11; read_byte(pc + 1) in 0x06, 0x0A, 0x0E, 0x16
ImmediatesRead(op) ==
    IF op \in {1, 8, 17} THEN 2
    ELSE IF op \in {6, 10, 14, 22} THEN 1
    ELSE 0

\* C22 as stated: every implemented opcode advances pc by its total encoded
\* length. The pc delta of a retired instruction is between 1 and 3 and at
\* least 1 plus the number of immediate bytes the opcode read, so no byte
\* read as an immediate operand is the next opcode fetched.
C22_PcPastImmediates ==
    [][ (CycleCall /\ FetchIs(Implemented) /\ retired' = retired + 1)
            => /\ pc' - pc \in 1 .. 3
               /\ pc' - pc >= 1 + ImmediatesRead(Cell(memory, pc))
      ]_vars

\* the value each arm of execute returns
Cost(op) ==
    IF op \in {0, 4, 5, 7, 12, 13, 15, 16, 20, 21, 23, 31, OpHalt} THEN 4
    ELSE IF op \in {2, 3, 6, 9, 10, 11, 14, 18, 19, 22} THEN 8
    ELSE IF op \in {1, 17} THEN 12
    ELSE 20

\* C23: each retired instruction adds to cycle_count exactly the fixed cost
\* of its opcode (4, 8, 12 or 20 by the opcode byte alone), cycle_count
\* changes in no other step, and it never decreases.
C23_FixedCost ==
    [][ /\ retired' = retired + 1
            => /\ CycleCall /\ FetchIs(Implemented)
               /\ cycle_count' = cycle_count + Cost(Cell(memory, pc))
        /\ retired' # retired + 1 => cycle_count' = cycle_count
        /\ cycle_count' >= cycle_count
      ]_vars

\* C23 witness: LD (a16),SP retired in a test and cost 20.
C23_Witness ==
    /\ rpc = "test" /\ retired = 1 /\ Cell(memory, EntryPc) = 8
    /\ cycle_count = 20 /\ pc = EntryPc + 3
    /\ Cell(memory, 48879) = 239 /\ Cell(memory, 48880) = 190

\* a step of the pacing thread's tick: the increment under the lock
TickStep == cpc = "locked" /\ cpc' = "wait"

\* C24: single writer, single reader. The counter is changed only by the
\* pacing thread's tick, never by a step of the CPU thread; a step of the
\* pacing thread changes nothing of the CPU's state (registers, flags, pc,
\* sp, memory, halt, stop, cycle_count); a step of the CPU thread changes
\* nothing of the pacing thread's state, and what it takes from it is the
\* counter value its poll reads.
C24_SingleWriter ==
    [][ /\ total_cycles' # total_cycles
            => (TickStep /\ lock = "clock"
                  /\ total_cycles' = total_cycles + 1)
        /\ (rpc # "unbuilt" /\ clockVars' # clockVars)
            => (cpuVars' = cpuVars /\ runVars' = runVars)
        /\ (rpc # "unbuilt" /\ <<cpuVars, runVars>>' # <<cpuVars, runVars>>)
            => clockVars' = clockVars
        /\ PollStep => polled' = total_cycles
      ]_vars

\* C24 witness: a tick landed between the poll and the cycle() of the
\* engine's second instruction.
C24_Witness ==
    /\ rpc = "cycle" /\ retired = 1 /\ total_cycles > polled
    /\ cycle_count = 4 /\ polled > cycle_count

\* C25: bounded run-ahead. In every reachable state cycle_count is at most
\* the clock counter plus 19 (the largest instruction cost, 20, minus one),
\* and no instruction has been retired while the counter is still 0.
C25_BoundedRunAhead ==
    /\ cycle_count <= total_cycles + 19
    /\ retired > 0 => total_cycles > 0

\* C25 witness: LD (a16),SP was retired on the first tick, so cycle_count is
\* 20 with the counter still 1.
C25_Witness ==
    /\ rpc = "stepped" /\ retired = 1 /\ total_cycles = 1
    /\ cycle_count = total_cycles + 19

RECURSIVE After(_, _, _, _)
\* the engine e with cycle_count `count` after k more retired instructions,
\* run with no clock at all, in a build whose pc overflow does `ovf`; ok is
\* FALSE if it panics before the k-th
After(e, count, k, ovf) ==
    IF k = 0 THEN [ok |-> TRUE, st |-> e, count |-> count]
    ELSE LET r == cycle(e, ovf)
         IN  IF r.fault # "none"
             THEN [ok |-> FALSE, st |-> e, count |-> count]
             ELSE After(r.st, count + r.cost, k - 1, ovf)

\* C26: timing independence. For a fixed initial memory and register state
\* the CPU state (registers, flags, pc, sp, memory, halt, stop, cycle_count)
\* after 0, 1, 2, ... retired instructions is the same under every schedule
\* of clock ticks: it is the state that many cycle() calls in a row give.
C26_TimingIndependence ==
    rpc # "unbuilt"
        => \E ovf \in OverflowOutcomes :
              LET a == After(loaded, 0, retired, ovf)
              IN  a.ok /\ a.st = Engine /\ a.count = cycle_count

\* C26 witness: NOP, INC B and HALT were retired while the clock ran on to
\* its tenth tick between them.
C26_Witness ==
    /\ halt /\ retired = 3 /\ registers.b = 1 /\ cycle_count = 12
    /\ total_cycles = 10 /\ polled = 9
    /\ loaded.pc = EntryPc /\ loaded.registers = NewRegisters

(***************************************************************************)
(* The two threads under a fair scheduler: the pacing thread, once it     *)
(* holds the lock, gets to run its increment and drop the guard, and the   *)
(* CPU thread waiting in lock() gets the mutex if it is free again and     *)
(* again.                                                                  *)
(***************************************************************************)
Fairness ==
    /\ WF_vars(ClockTick)
    /\ SF_vars(Poll)

SpecFair == Init /\ [][Next]_vars /\ Fairness

\* C27: lock discipline. The pacing thread holds the counter's lock exactly
\* while it is at the increment and has released it when it busy-waits; the
\* CPU's read takes and releases the lock within the read; while the CPU
\* waits at its read either it or the lock's holder can step (no deadlock);
\* and every get_total_cycles call of run() eventually returns.
C27_LockDiscipline ==
    /\ [](lock = "clock" <=> cpc = "locked")
    /\ [](rpc = "poll" => (ENABLED Poll \/ ENABLED ClockTick))
    /\ [][ /\ (lock = "clock" /\ lock' = "free")
               => (TickStep /\ total_cycles' = total_cycles + 1)
           /\ PollStep => (lock = "free" /\ lock' = "free")
         ]_vars
    /\ (rpc = "poll" ~> rpc # "poll")

\* C27 witness: run() is at its read, after an earlier read that returned 2,
\* while the pacing thread holds the lock for its third increment.
C27_Witness ==
    /\ rpc = "poll" /\ lock = "clock" /\ cpc = "locked"
    /\ polled = 2 /\ total_cycles = 2 /\ retired >= 1

====
